---- MODULE Spec2Model ----
(***************************************************************************)
(* Model of the MeetHere backend (src/backend/main.py, models.py,          *)
(* schemas.py): the users and events tables, the SQLAlchemy sessions of    *)
(* the requests in flight, and one action per route handler.               *)
(*                                                                         *)
(* A request whose outcome depends on what other requests commit between   *)
(* its query and its commit is split in two steps (Begin: dependency       *)
(* resolution, query, checks and the in-memory change; Commit: flush,      *)
(* commit and response).  Everything between the query and the commit is   *)
(* local to the request's own session, so the two steps give every         *)
(* interleaving of the finer-grained statements.                           *)
(***************************************************************************)
EXTENDS Integers, Sequences, FiniteSets, TLC

\* ------------------------------------------------------------------ bounds
MaxEvents == 1
RaceEvents == 1
ListEvents == 2
PatchedEvents == 1
FrameEvents == 1
MaxUsers == 4
MaxTime == 1
NumReqs == 2

\* ------------------------------------------------------ optional values
\* A nullable column / Optional[...] field: None, or Some(v).
None == <<>>
Some(v) == <<v>>

\* Python truthiness of an Optional[int] (None and 0 are falsy).
Truthy(o) == o # None /\ o[1] # 0

\* --------------------------------------------------------------- state
VARIABLES
  users,         \* table users:  id -> row
  next_user_id,  \* users.id autoincrement
  events,        \* table events: id -> row
  tokens,        \* bearer tokens issued so far
  now,           \* datetime.utcnow()
  sess,          \* request slot -> session of a request between query and commit
  resp           \* the response most recently sent

vars == <<users, next_user_id, events, tokens, now, sess, resp>>

Reqs == 1..NumReqs

Idle == [op |-> "idle"]

\* ---------------------------------------------------------------- rows
\* models.py UserDB
UserRow(username, email, pwhash, admin) ==
  [username |-> username, email |-> email, password |-> pwhash,
   is_active |-> TRUE, is_admin |-> admin,
   updated_at |-> None,
   birth_date |-> None, gender |-> None,
   interests |-> Some(<<>>), joined_groups |-> Some(<<>>),
   onboarding_completed |-> Some(FALSE), profile_photo |-> None]

\* auth.get_password_hash: a one-way image of the password
get_password_hash(pw) == <<"hash", pw>>

\* models.py EventDB
\* (id is the key of the table; created_at, written once by its default and
\* read by no handler, is left out)
EventFields ==
  {"title", "description", "location", "event_date", "created_by",
   "updated_at", "is_active", "max_participants", "image_url",
   "participants"}

\* schemas.py EventBase / EventCreate: the fields a create body carries
EventCreateFields ==
  {"title", "description", "location", "event_date", "max_participants",
   "image_url"}

\* schemas.py EventUpdate: the fields a PATCH body may carry
EventUpdateFields ==
  {"title", "description", "location", "event_date", "is_active",
   "max_participants", "image_url"}

\* ------------------------------------------------------------ responses
\* status and detail of the HTTP response; body names the event rows a read
\* returns (by id, in order)
Response(op, uid, eid, status, detail, body) ==
  [op |-> op, uid |-> uid, eid |-> eid, status |-> status,
   detail |-> detail, body |-> body]

NoResponse == Response("none", 0, 0, 0, "", <<>>)

\* ----------------------------------------------------------- sequences
Range(s) == {s[i] : i \in DOMAIN s}

\* list.remove(x): drops the first occurrence of x
RECURSIVE Remove(_, _)
Remove(s, x) ==
  IF s = <<>> THEN <<>>
  ELSE IF Head(s) = x THEN Tail(s)
  ELSE <<Head(s)>> \o Remove(Tail(s), x)


\* --------------------------------------------------------- unit of work
\* models.py:22-23,48: interests, joined_groups and participants are plain
\* Column(JSON), not MutableList.as_mutable(JSON): a change made in place to
\* the loaded list (append, remove) raises no attribute event, so the
\* session does not see the row as modified.
JSONMutationTracked == FALSE

\* The columns an UPDATE of the flush writes: the attributes whose value
\* differs from the loaded one, those changed in place only when tracked.
Dirty(loaded, obj, inplace) ==
  {f \in DOMAIN obj :
     /\ obj[f] # loaded[f]
     /\ (f \in inplace => JSONMutationTracked)}

\* Session.flush for one loaded row: nothing is emitted when no column is
\* dirty; otherwise the dirty columns are written over the stored row and
\* updated_at takes its onupdate value (models.py:17,44).
Flush(row, loaded, obj, inplace, t) ==
  LET dirty == Dirty(loaded, obj, inplace) IN
  IF dirty = {} THEN row
  ELSE [f \in DOMAIN row |->
          IF f \in dirty THEN obj[f]
          ELSE IF f = "updated_at" THEN Some(t)
          ELSE row[f]]

\* setattr(obj, key, value) for every key of a partial body
Assign(obj, body) ==
  [f \in DOMAIN obj |-> IF f \in DOMAIN body THEN body[f] ELSE obj[f]]

\* A session between its query and its commit: the row it works on (id),
\* and, for the columns the handler changes, the value loaded and the value
\* the handler left in the object; ok is the response sent after the commit.
Session(op, uid, id, loaded, obj, inplace, ok) ==
  [op |-> op, uid |-> uid, id |-> id, loaded |-> loaded, obj |-> obj,
   inplace |-> inplace, ok |-> ok]

IsIdle(r) == sess[r].op = "idle"

\* ----------------------------------------------------------- auth gate
\* auth.get_current_active_user: the token's subject is a username; the
\* request acts as a user row carrying that username (.first() of the
\* matching rows).
CurrentUsers(tok) ==
  {u \in DOMAIN users : users[u].username = tok.sub /\ users[u].is_active}

Token(sub, uid) == [sub |-> sub, uid |-> uid]

\* ------------------------------------------------------------- events
MayEdit_CreatorAndAdmin(ev, uid) == ev.created_by = uid /\ users[uid].is_admin

\* main.py:437,461: creator or admin
MayEdit(ev, uid) == ev.created_by = uid \/ users[uid].is_admin

create_event_NoAutoJoin(tok, body, maxEvents) ==
  \E uid \in CurrentUsers(tok) :
    LET id == Cardinality(DOMAIN events) + 1
        row == [f \in EventFields |->
                  IF f \in DOMAIN body THEN body[f]
                  ELSE IF f = "created_by" THEN uid
                  ELSE IF f = "participants" THEN <<>>
                  ELSE IF f = "is_active" THEN Some(TRUE)
                  ELSE None]
    IN /\ id <= maxEvents
       /\ events' = [x \in DOMAIN events \cup {id} |->
                       IF x = id THEN row ELSE events[x]]
       /\ resp' = Response("create_event", uid, id, 200, "", <<>>)
       /\ UNCHANGED <<users, next_user_id, tokens, now, sess>>

\* POST /api/events/
create_event(tok, body, maxEvents) ==
  \E uid \in CurrentUsers(tok) :
    LET id == Cardinality(DOMAIN events) + 1
        row == [f \in EventFields |->
                  IF f \in DOMAIN body THEN body[f]
                  ELSE IF f = "created_by" THEN uid
                  ELSE IF f = "participants" THEN <<uid>>
                  ELSE IF f = "is_active" THEN Some(TRUE)
                  ELSE None]
    IN /\ id <= maxEvents
       /\ events' = [x \in DOMAIN events \cup {id} |->
                       IF x = id THEN row ELSE events[x]]
       /\ resp' = Response("create_event", uid, id, 200, "", <<>>)
       /\ UNCHANGED <<users, next_user_id, tokens, now, sess>>

join_begin_NoMembershipCheck(r, tok, e) ==
  /\ IsIdle(r)
  /\ \E uid \in CurrentUsers(tok) :
       IF e \notin DOMAIN events THEN
         /\ resp' = Response("join_event", uid, e, 404, "Event not found", <<>>)
         /\ UNCHANGED sess
       ELSE LET ev == events[e] IN
       IF FALSE THEN
         /\ resp' = Response("join_event", uid, e, 200,
                             "Already joined this event", <<>>)
         /\ UNCHANGED sess
       ELSE IF /\ Truthy(ev.max_participants)
               /\ Len(ev.participants) >= ev.max_participants[1] THEN
         /\ resp' = Response("join_event", uid, e, 400, "Event is full", <<>>)
         /\ UNCHANGED sess
       ELSE
         /\ sess' = [sess EXCEPT ![r] =
              Session("join_event", uid, e,
                      [participants |-> ev.participants],
                      [participants |-> Append(ev.participants, uid)],
                      {"participants"},
                      Response("join_event", uid, e, 200,
                               "Successfully joined the event", <<>>))]
         /\ UNCHANGED resp
  /\ UNCHANGED <<users, next_user_id, events, tokens, now>>

\* POST /api/events/{event_id}/join, up to the commit
join_begin(r, tok, e) ==
  /\ IsIdle(r)
  /\ \E uid \in CurrentUsers(tok) :
       IF e \notin DOMAIN events THEN
         /\ resp' = Response("join_event", uid, e, 404, "Event not found", <<>>)
         /\ UNCHANGED sess
       ELSE LET ev == events[e] IN
       IF uid \in Range(ev.participants) THEN
         /\ resp' = Response("join_event", uid, e, 200,
                             "Already joined this event", <<>>)
         /\ UNCHANGED sess
       ELSE IF /\ Truthy(ev.max_participants)
               /\ Len(ev.participants) >= ev.max_participants[1] THEN
         /\ resp' = Response("join_event", uid, e, 400, "Event is full", <<>>)
         /\ UNCHANGED sess
       ELSE
         /\ sess' = [sess EXCEPT ![r] =
              Session("join_event", uid, e,
                      [participants |-> ev.participants],
                      [participants |-> Append(ev.participants, uid)],
                      {"participants"},
                      Response("join_event", uid, e, 200,
                               "Successfully joined the event", <<>>))]
         /\ UNCHANGED resp
  /\ UNCHANGED <<users, next_user_id, events, tokens, now>>

\* POST /api/events/{event_id}/leave, up to the commit
leave_begin(r, tok, e) ==
  /\ IsIdle(r)
  /\ \E uid \in CurrentUsers(tok) :
       IF e \notin DOMAIN events THEN
         /\ resp' = Response("leave_event", uid, e, 404, "Event not found", <<>>)
         /\ UNCHANGED sess
       ELSE LET ev == events[e] IN
       IF uid \notin Range(ev.participants) THEN
         /\ resp' = Response("leave_event", uid, e, 200,
                             "Not joined this event", <<>>)
         /\ UNCHANGED sess
       ELSE IF ev.created_by = uid THEN
         /\ resp' = Response("leave_event", uid, e, 400,
                             "Event creator cannot leave the event", <<>>)
         /\ UNCHANGED sess
       ELSE
         /\ sess' = [sess EXCEPT ![r] =
              Session("leave_event", uid, e,
                      [participants |-> ev.participants],
                      [participants |-> Remove(ev.participants, uid)],
                      {"participants"},
                      Response("leave_event", uid, e, 200,
                               "Successfully left the event", <<>>))]
         /\ UNCHANGED resp
  /\ UNCHANGED <<users, next_user_id, events, tokens, now>>

\* db.commit() of a join_event or leave_event session and its response
commit_event(r) ==
  /\ sess[r].op \in {"join_event", "leave_event"}
  /\ events' = [events EXCEPT ![sess[r].id] =
                  Flush(@, sess[r].loaded, sess[r].obj, sess[r].inplace, now)]
  /\ resp' = sess[r].ok
  /\ sess' = [sess EXCEPT ![r] = Idle]
  /\ UNCHANGED <<users, next_user_id, tokens, now>>

\* PATCH /api/events/{event_id}
EventUpdateBody_AllowExtra(raw) == raw

\* schemas.py EventUpdate, main.py:428 and 441: the request JSON is parsed
\* into EventUpdate, which keeps the declared fields the JSON sets and
\* ignores every other key
EventUpdateBody(raw) ==
  [f \in DOMAIN raw \cap EventUpdateFields |-> raw[f]]

\* main.py:441-446: setattr of every field the body carries, then commit
PatchedEvent(row, body, t) == Flush(row, row, Assign(row, body), {}, t)

update_event(tok, e, body) ==
  /\ \E uid \in CurrentUsers(tok) :
       IF e \notin DOMAIN events THEN
         /\ resp' = Response("update_event", uid, e, 404, "Event not found", <<>>)
         /\ UNCHANGED events
       ELSE IF ~MayEdit(events[e], uid) THEN
         /\ resp' = Response("update_event", uid, e, 403,
                             "Not authorized to edit this event", <<>>)
         /\ UNCHANGED events
       ELSE
         /\ events' = [events EXCEPT ![e] =
              PatchedEvent(@, EventUpdateBody(body), now)]
         /\ resp' = Response("update_event", uid, e, 200, "", <<>>)
  /\ UNCHANGED <<users, next_user_id, tokens, now, sess>>

delete_event_Hard(tok, e) ==
  /\ \E uid \in CurrentUsers(tok) :
       IF e \notin DOMAIN events THEN
         /\ resp' = Response("delete_event", uid, e, 404, "Event not found", <<>>)
         /\ UNCHANGED events
       ELSE IF ~MayEdit(events[e], uid) THEN
         /\ resp' = Response("delete_event", uid, e, 403,
                             "Not authorized to delete this event", <<>>)
         /\ UNCHANGED events
       ELSE
         /\ events' = [x \in DOMAIN events \ {e} |-> events[x]]
         /\ resp' = Response("delete_event", uid, e, 200,
                             "Event successfully deleted", <<>>)
  /\ UNCHANGED <<users, next_user_id, tokens, now, sess>>

\* DELETE /api/events/{event_id}
delete_event(tok, e) ==
  /\ \E uid \in CurrentUsers(tok) :
       IF e \notin DOMAIN events THEN
         /\ resp' = Response("delete_event", uid, e, 404, "Event not found", <<>>)
         /\ UNCHANGED events
       ELSE IF ~MayEdit(events[e], uid) THEN
         /\ resp' = Response("delete_event", uid, e, 403,
                             "Not authorized to delete this event", <<>>)
         /\ UNCHANGED events
       ELSE
         /\ events' = [events EXCEPT ![e] =
              Flush(@, @, [@ EXCEPT !.is_active = Some(FALSE)], {}, now)]
         /\ resp' = Response("delete_event", uid, e, 200,
                             "Event successfully deleted", <<>>)
  /\ UNCHANGED <<users, next_user_id, tokens, now, sess>>

\* main.py:548-554: the extension of the file name, the stored file's name
\* and its URL
ImageUrl(e, filename, t) ==
  <<"/static/event_images/event_", e, t, filename.ext>>

\* POST /api/events/{event_id}/image; file carries the content type and
\* the name (stem and extension) of the uploaded file
upload_event_image(tok, e, file) ==
  /\ \E uid \in CurrentUsers(tok) :
       IF e \notin DOMAIN events THEN
         /\ resp' = Response("upload_event_image", uid, e, 404,
                             "Event not found", <<>>)
         /\ UNCHANGED events
       ELSE IF ~MayEdit(events[e], uid) THEN
         /\ resp' = Response("upload_event_image", uid, e, 403,
                             "Not authorized to edit this event", <<>>)
         /\ UNCHANGED events
       ELSE IF ~file.is_image THEN
         /\ resp' = Response("upload_event_image", uid, e, 400,
                             "Only image files are allowed", <<>>)
         /\ UNCHANGED events
       ELSE
         /\ events' = [events EXCEPT ![e] =
              Flush(@, @, [@ EXCEPT !.image_url = Some(ImageUrl(e, file, now))],
                    {}, now)]
         /\ resp' = Response("upload_event_image", uid, e, 200, "", <<>>)
  /\ UNCHANGED <<users, next_user_id, tokens, now, sess>>

\* GET /api/events/{event_id} (no authentication dependency): the response
GetEvent(evs, e) ==
  IF e \in DOMAIN evs
  THEN Response("get_event", 0, e, 200, "", <<e>>)
  ELSE Response("get_event", 0, e, 404, "Event not found", <<>>)

get_event(e) ==
  /\ resp' = GetEvent(events, e)
  /\ UNCHANGED <<users, next_user_id, events, tokens, now, sess>>

\* datetime.utcnow() advances
Tick ==
  /\ now < MaxTime
  /\ now' = now + 1
  /\ UNCHANGED <<users, next_user_id, events, tokens, sess, resp>>


\* ------------------------------------------------------------- listing
\* json.dumps of a list of ids, as the text the JSON column stores:
\* "[", the ids separated by ", ", "]"
RECURSIVE JSONItems(_)
JSONItems(s) ==
  IF s = <<>> THEN <<>>
  ELSE IF Len(s) = 1 THEN <<ToString(s[1])>>
  ELSE <<ToString(s[1]), ", ">> \o JSONItems(Tail(s))

JSONText(s) == <<"[">> \o JSONItems(s) \o <<"]">>

\* SQL  text LIKE '%' || pattern || '%'
Like(text, pattern) ==
  \E i \in 0..(Len(text) - Len(pattern)) :
    SubSeq(text, i + 1, i + Len(pattern)) = pattern

\* EventDB.participants.contains([uid]) on a Column(JSON): the generic
\* ColumnOperators.contains, i.e. LIKE '%' || <json of [uid]> || '%' over
\* the stored JSON text.
ParticipantsContains(ev, uid) ==
  Like(JSONText(ev.participants), JSONText(<<uid>>))

\* main.py:391-405: the WHERE clause of get_events
Matches(ev, t, filter_type, uid) ==
  /\ ev.is_active = Some(TRUE)
  /\ CASE filter_type = "my" -> ev.created_by = uid
       [] filter_type = "joined" -> ParticipantsContains(ev, uid)
       [] filter_type = "upcoming" ->
            ev.event_date # None /\ ev.event_date[1] >= t
       [] filter_type = "past" ->
            ev.event_date # None /\ ev.event_date[1] < t
       [] OTHER -> TRUE

OrderedByDate_Descending(evs, s) ==
  \A i, j \in DOMAIN s :
    (i < j /\ evs[s[i]].event_date # None /\ evs[s[j]].event_date # None)
      => evs[s[i]].event_date[1] >= evs[s[j]].event_date[1]

\* ORDER BY event_date: rows with equal (or NULL) dates come in any order
OrderedByDate(evs, s) ==
  \A i, j \in DOMAIN s :
    (i < j /\ evs[s[i]].event_date # None /\ evs[s[j]].event_date # None)
      => evs[s[i]].event_date[1] <= evs[s[j]].event_date[1]

Orderings(evs, ids) ==
  {s \in [1..Cardinality(ids) -> ids] :
     /\ \A i, j \in DOMAIN s : i # j => s[i] # s[j]
     /\ OrderedByDate(evs, s)}

\* OFFSET skip LIMIT limit
Window(s, skip, limit) ==
  SubSeq(s, skip + 1, IF skip + limit < Len(s) THEN skip + limit ELSE Len(s))

\* every result (as the sequence of event ids) get_events may return
GetEventsResults(evs, t, filter_type, uid, skip, limit) ==
  {Window(s, skip, limit) :
     s \in Orderings(evs, {e \in DOMAIN evs :
                             Matches(evs[e], t, filter_type, uid)})}

\* GET /api/events/
get_events(tok, skip, limit, filter_type) ==
  /\ \E uid \in CurrentUsers(tok) :
       \E result \in GetEventsResults(events, now, filter_type, uid, skip, limit) :
         resp' = Response("get_events", 0, 0, 200, "", result)
  /\ UNCHANGED <<users, next_user_id, events, tokens, now, sess>>


\* --------------------------------------------------------------- users
\* schemas.py UserProfileUpdate
ProfileFields ==
  {"birth_date", "gender", "interests", "joined_groups",
   "onboarding_completed", "profile_photo"}

ProfileUserData_AsSent(body) == body

\* main.py:220-236: a field enters user_data when it "is not None"
ProfileUserData(body) ==
  [f \in {g \in DOMAIN body : body[g] # None} |-> body[f]]

\* main.py:238-243: setattr of every entry of user_data, then commit
PatchedProfile(row, body, t) ==
  Flush(row, row, Assign(row, ProfileUserData(body)), {}, t)

\* PATCH /api/profile/
update_user_profile(tok, body) ==
  /\ \E uid \in CurrentUsers(tok) :
       /\ users' = [users EXCEPT ![uid] = PatchedProfile(@, body, now)]
       /\ resp' = Response("update_user_profile", uid, 0, 200, "", <<>>)
  /\ UNCHANGED <<next_user_id, events, tokens, now, sess>>

\* models.py:12: UNIQUE (email), checked by the database when a row is
\* written; row id is the one being written
EmailTaken(id, email) ==
  \E u \in DOMAIN users : u # id /\ users[u].email = email

\* auth.authenticate_user and create_access_token: POST /api/login
login(username, password) ==
  /\ LET found == {u \in DOMAIN users : users[u].username = username} IN
     IF found = {} THEN
       /\ resp' = Response("login", 0, 0, 401,
                           "Incorrect username or password", <<>>)
       /\ UNCHANGED tokens
     ELSE \E u \in found :
       IF users[u].password = get_password_hash(password) THEN
         /\ tokens' = tokens \cup {Token(username, u)}
         /\ resp' = Response("login", u, 0, 200, "", <<>>)
       ELSE
         /\ resp' = Response("login", 0, 0, 401,
                             "Incorrect username or password", <<>>)
         /\ UNCHANGED tokens
  /\ UNCHANGED <<users, next_user_id, events, now, sess>>

\* a protected route called with a token whose subject names no user
unauthenticated(tok) ==
  /\ CurrentUsers(tok) = {}
  /\ resp' = Response("auth", 0, 0, 401, "Could not validate credentials", <<>>)
  /\ UNCHANGED <<users, next_user_id, events, tokens, now, sess>>

\* POST /users/, up to the commit
create_user(r, body, maxUsers) ==
  /\ IsIdle(r)
  /\ next_user_id <= maxUsers
  /\ IF \E u \in DOMAIN users : users[u].email = body.email THEN
       /\ resp' = Response("create_user", 0, 0, 400,
                           "Email already registered", <<>>)
       /\ UNCHANGED sess
     ELSE IF \E u \in DOMAIN users : users[u].username = body.username THEN
       /\ resp' = Response("create_user", 0, 0, 400,
                           "Username already taken", <<>>)
       /\ UNCHANGED sess
     ELSE
       /\ sess' = [sess EXCEPT ![r] =
            Session("create_user", 0, 0, <<>>,
                    UserRow(body.username, body.email,
                            get_password_hash(body.password), FALSE),
                    {}, Response("create_user", 0, 0, 200, "", <<>>))]
       /\ UNCHANGED resp
  /\ UNCHANGED <<users, next_user_id, events, tokens, now>>

\* PATCH /users/me, up to the commit (user_data is a dict: keys present,
\* values truthy or not)
update_user_info(r, tok, user_data) ==
  /\ IsIdle(r)
  /\ \E uid \in CurrentUsers(tok) :
       LET setName == "username" \in DOMAIN user_data /\ user_data.username # ""
           setMail == "email" \in DOMAIN user_data /\ user_data.email # ""
           cur == users[uid]
       IN
       IF /\ setName
          /\ \E u \in DOMAIN users :
               users[u].username = user_data.username /\ u # uid THEN
         /\ resp' = Response("update_user_info", uid, 0, 400,
                             "Username already taken", <<>>)
         /\ UNCHANGED sess
       ELSE IF /\ setMail
               /\ \E u \in DOMAIN users :
                    users[u].email = user_data.email /\ u # uid THEN
         /\ resp' = Response("update_user_info", uid, 0, 400,
                             "Email already registered", <<>>)
         /\ UNCHANGED sess
       ELSE
         /\ sess' = [sess EXCEPT ![r] =
              Session("update_user_info", uid, uid,
                      [username |-> cur.username, email |-> cur.email],
                      [username |-> IF setName THEN user_data.username
                                    ELSE cur.username,
                       email |-> IF setMail THEN user_data.email
                                 ELSE cur.email],
                      {}, Response("update_user_info", uid, 0, 200, "", <<>>))]
         /\ UNCHANGED resp
  /\ UNCHANGED <<users, next_user_id, events, tokens, now>>

\* PATCH /admin/users/{user_id}, up to the commit
admin_update_user(r, tok, user_id, body) ==
  /\ IsIdle(r)
  /\ \E uid \in CurrentUsers(tok) :
       IF ~users[uid].is_admin THEN
         /\ resp' = Response("admin_update_user", uid, 0, 403,
                             "Not enough permissions", <<>>)
         /\ UNCHANGED sess
       ELSE IF user_id \notin DOMAIN users THEN
         /\ resp' = Response("admin_update_user", uid, 0, 404,
                             "User not found", <<>>)
         /\ UNCHANGED sess
       ELSE
         LET cur == users[user_id] IN
         /\ sess' = [sess EXCEPT ![r] =
              Session("admin_update_user", uid, user_id,
                      [username |-> cur.username, email |-> cur.email,
                       password |-> cur.password],
                      [username |-> body.username, email |-> body.email,
                       password |-> get_password_hash(body.password)],
                      {}, Response("admin_update_user", uid, 0, 200, "", <<>>))]
         /\ UNCHANGED resp
  /\ UNCHANGED <<users, next_user_id, events, tokens, now>>

\* DELETE /admin/users/{user_id}.  events.created_by is a foreign key to
\* users.id (models.py:41); whether the database enforces it depends on the
\* engine, so deleting a user who created events either succeeds or fails
\* at the commit.
admin_delete_user(tok, user_id) ==
  /\ \E uid \in CurrentUsers(tok) :
       IF ~users[uid].is_admin THEN
         /\ resp' = Response("admin_delete_user", uid, 0, 403,
                             "Not enough permissions", <<>>)
         /\ UNCHANGED users
       ELSE IF user_id \notin DOMAIN users THEN
         /\ resp' = Response("admin_delete_user", uid, 0, 404,
                             "User not found", <<>>)
         /\ UNCHANGED users
       ELSE
         \/ /\ users' = [u \in DOMAIN users \ {user_id} |-> users[u]]
            /\ resp' = Response("admin_delete_user", uid, 0, 200,
                                "User deleted", <<>>)
         \/ /\ \E e \in DOMAIN events : events[e].created_by = user_id
            /\ resp' = Response("admin_delete_user", uid, 0, 500,
                                "Internal Server Error", <<>>)
            /\ UNCHANGED users
  /\ UNCHANGED <<next_user_id, events, tokens, now, sess>>

\* db.commit() of a create_user, update_user_info or admin_update_user
\* session and its response.  A write that breaks UNIQUE (email) raises
\* IntegrityError: nothing is written and the request ends with 500.
commit_user(r) ==
  /\ sess[r].op \in {"create_user", "update_user_info", "admin_update_user"}
  /\ LET s == sess[r]
         id == IF s.op = "create_user" THEN next_user_id ELSE s.id
         writesMail == s.op = "create_user" \/ "email" \in Dirty(s.loaded, s.obj, s.inplace)
     IN
     IF s.op # "create_user" /\ id \notin DOMAIN users THEN
       \* the row was deleted meanwhile: the UPDATE matches no row
       /\ resp' = Response(s.op, s.uid, 0, 500, "Internal Server Error", <<>>)
       /\ UNCHANGED <<users, next_user_id>>
     ELSE IF writesMail /\ EmailTaken(id, s.obj.email) THEN
       /\ resp' = Response(s.op, s.uid, 0, 500,
                           IF s.op = "create_user" THEN "Database error"
                           ELSE "Internal Server Error", <<>>)
       /\ UNCHANGED <<users, next_user_id>>
     ELSE IF s.op = "create_user" THEN
       /\ users' = [u \in DOMAIN users \cup {id} |->
                      IF u = id THEN s.obj ELSE users[u]]
       /\ next_user_id' = next_user_id + 1
       /\ resp' = s.ok
     ELSE
       /\ users' = [users EXCEPT ![id] = Flush(@, s.loaded, s.obj, s.inplace, now)]
       /\ resp' = s.ok
       /\ UNCHANGED next_user_id
  /\ sess' = [sess EXCEPT ![r] = Idle]
  /\ UNCHANGED <<events, tokens, now>>


\* ------------------------------------------------ the event registry
\* Three registered users holding a token each: an administrator (the
\* is_admin flag is set in the database, no route sets it) and two members.
SeedUsers ==
  <<UserRow("root", "root@x", get_password_hash("p0"), TRUE),
    UserRow("alice", "a@x", get_password_hash("p1"), FALSE),
    UserRow("bob", "b@x", get_password_hash("p2"), FALSE)>>

SeedTokens == {Token(SeedUsers[u].username, u) : u \in DOMAIN SeedUsers}

Init ==
  /\ users = SeedUsers
  /\ next_user_id = Len(SeedUsers) + 1
  /\ events = <<>>
  /\ tokens = SeedTokens
  /\ now = 0
  /\ sess = [r \in Reqs |-> Idle]
  /\ resp = NoResponse

EventBody(title, date, cap) ==
  [title |-> Some(title), description |-> Some("d1"), location |-> Some("l1"),
   event_date |-> Some(date), max_participants |-> cap, image_url |-> None]

\* capacities a request may carry
Caps == {None, Some(0), Some(1), Some(2)}

\* request bodies of the participation runs
CreateBodies == {EventBody("t1", 0, cap) : cap \in Caps}

PatchBodies == {[max_participants |-> Some(1)], [is_active |-> Some(TRUE)]}

EventIds == 1..MaxEvents

\* The event registry served by one process: main.py:565 starts a single
\* uvicorn worker and the event handlers are async def without an await, so
\* a handler runs from its query to its commit before the next one starts
\* (slot 1 is the request being served).
Next ==
  \/ \E tok \in tokens, body \in CreateBodies : create_event(tok, body, MaxEvents)
  \/ \E tok \in tokens, e \in EventIds : join_begin(1, tok, e)
  \/ \E tok \in tokens, e \in EventIds : leave_begin(1, tok, e)
  \/ commit_event(1)
  \/ \E tok \in tokens, e \in EventIds, body \in PatchBodies :
       update_event(tok, e, body)
  \/ \E tok \in tokens, e \in EventIds : delete_event(tok, e)
  \/ \E e \in EventIds : get_event(e)

Spec == Init /\ [][Next]_vars

\* The participation routes served by several workers: join and leave
\* requests overlap between their query and their commit.
RaceCaps == {None, Some(1), Some(2)}

RaceBodies == {EventBody("t1", 0, cap) : cap \in RaceCaps}

RaceEventIds == 1..RaceEvents

NextRace ==
  \/ \E tok \in tokens, body \in RaceBodies : create_event(tok, body, RaceEvents)
  \/ \E r \in Reqs, tok \in tokens, e \in RaceEventIds : join_begin(r, tok, e)
  \/ \E r \in Reqs, tok \in tokens, e \in RaceEventIds : leave_begin(r, tok, e)
  \/ \E r \in Reqs : commit_event(r)

SpecRace == Init /\ [][NextRace]_vars

\* Listing: events dated before, at and after the clock are created,
\* soft-deleted and read back.  Dates are offsets from the initial clock.
ListDates == {0 - 1, 0, 1}

ListBodies == {EventBody("t1", d, None) : d \in ListDates}

ListEventIds == 1..ListEvents

FilterTypes == {"none", "my", "joined", "upcoming", "past"}

Skips == {0, 1}

Limits == {1, 2}

\* the tokens of the ordinary members
MemberTokens == {tok \in tokens : \A u \in CurrentUsers(tok) : ~users[u].is_admin}

NextList ==
  \/ \E tok \in MemberTokens, body \in ListBodies :
       create_event(tok, body, ListEvents)
  \/ \E tok \in tokens, e \in ListEventIds : delete_event(tok, e)
  \/ \E e \in ListEventIds : get_event(e)
  \/ \E tok \in tokens, skip \in Skips, limit \in Limits, f \in FilterTypes :
       get_events(tok, skip, limit, f)

SpecList == Init /\ [][NextList]_vars

\* Partial updates: one member creates events and patches them and their
\* own profile; every EventUpdate field and every profile field occurs
\* supplied, supplied as null and omitted.
PatchTokens == {tok \in tokens : tok.sub = "alice"}

PatchEventIds == 1..PatchedEvents

\* the body without any field
NoFields == [f \in {} |-> None]

EventPatches ==
  {NoFields,
   [title |-> Some("t2"), description |-> None],
   [location |-> Some("l2"), event_date |-> Some(1)],
   [is_active |-> Some(FALSE), max_participants |-> Some(1),
    image_url |-> Some("i1")]}

ProfilePatches ==
  {NoFields,
   [gender |-> Some("f"), birth_date |-> None],
   [birth_date |-> Some(1), gender |-> None, profile_photo |-> Some("p1")],
   [interests |-> Some(<<"i1">>), joined_groups |-> Some(<<1>>),
    onboarding_completed |-> Some(TRUE), profile_photo |-> None]}

NextPatch ==
  \/ \E tok \in PatchTokens :
       create_event(tok, EventBody("t1", 0, Some(2)), PatchedEvents)
  \/ \E tok \in PatchTokens, e \in PatchEventIds, body \in EventPatches :
       update_event(tok, e, body)
  \/ \E tok \in PatchTokens, body \in ProfilePatches :
       update_user_profile(tok, body)
  \/ Tick

SpecPatch == Init /\ [][NextPatch]_vars

\* Accounts: registration, the two account PATCH routes and login.  create_user
\* and admin_update_user are plain functions served from the thread pool,
\* so requests overlap between their queries and their commit; here the
\* registrations overlap each other and one PATCH at a time.
UserBodies ==
  {[username |-> "carol", email |-> "c@x", password |-> "p1"],
   [username |-> "alice", email |-> "c@x", password |-> "p1"],
   [username |-> "carol", email |-> "a@x", password |-> "p1"]}

AdminBodies ==
  {[username |-> "alice", email |-> "b@x", password |-> "p2"],
   [username |-> "bob", email |-> "a@x", password |-> "p2"]}

\* the rows the administrator edits
AdminTargets == {3, 9}

UserData ==
  {[username |-> "carol"], [email |-> "c@x"], [username |-> "", email |-> "a@x"]}

LoginNames == {"alice", "carol", "dave"}

LoginPasswords == {"p1"}

NextUsers ==
  \/ \E r \in Reqs, body \in UserBodies : create_user(r, body, MaxUsers)
  \/ \E tok \in MemberTokens, user_data \in UserData :
       update_user_info(1, tok, user_data)
  \/ \E tok \in tokens, user_id \in AdminTargets, body \in AdminBodies :
       admin_update_user(1, tok, user_id, body)
  \/ \E r \in Reqs : commit_user(r)
  \/ \E tok \in tokens, user_id \in AdminTargets : admin_delete_user(tok, user_id)
  \/ \E username \in LoginNames, password \in LoginPasswords :
       login(username, password)
  \/ \E tok \in tokens : unauthenticated(tok)

SpecUsers == Init /\ [][NextUsers]_vars

\* Editing: events are created by the members and then patched, deleted
\* and given images by the creator, the administrator and the other member;
\* the PATCH JSON also carries keys EventUpdate does not declare.
FrameEventIds == 1..FrameEvents

FramePatches ==
  {[title |-> Some("t2"), created_by |-> 3, participants |-> <<>>],
   [is_active |-> Some(FALSE), max_participants |-> Some(1)]}

Files == {[is_image |-> TRUE, ext |-> "png"], [is_image |-> FALSE, ext |-> "txt"]}

NextFrame ==
  \/ \E tok \in MemberTokens :
       create_event(tok, EventBody("t1", 0, None), FrameEvents)
  \/ \E tok \in tokens, e \in FrameEventIds, raw \in FramePatches :
       update_event(tok, e, raw)
  \/ \E tok \in tokens, e \in FrameEventIds : delete_event(tok, e)
  \/ \E tok \in tokens, e \in FrameEventIds, file \in Files :
       upload_event_image(tok, e, file)

SpecFrame == Init /\ [][NextFrame]_vars

\* ====================================================== claims C1 - C5, C8
Capacity(e) == events[e].max_participants

Creator(e) == events[e].created_by

Members(evs, e) == Range(evs[e].participants)

JoinInFlight(r, e) == sess[r].op = "join_event" /\ sess[r].id = e

Joined(uid, e) ==
  Response("join_event", uid, e, 200, "Successfully joined the event", <<>>)

AlreadyJoined(uid, e) ==
  Response("join_event", uid, e, 200, "Already joined this event", <<>>)

EventFull(uid, e) ==
  Response("join_event", uid, e, 400, "Event is full", <<>>)

Left(uid, e) ==
  Response("leave_event", uid, e, 200, "Successfully left the event", <<>>)

NotJoined(uid, e) ==
  Response("leave_event", uid, e, 200, "Not joined this event", <<>>)

CreatorCannotLeave(uid, e) ==
  Response("leave_event", uid, e, 400,
           "Event creator cannot leave the event", <<>>)

\* C1: when two distinct non-participant users join the same event with
\* capacity N (N >= 1) concurrently (both read a participant list with
\* room for one more, both are past their check when the first of them
\* commits and is answered), the stored participant set has at most N
\* members and the two joins are not both accepted past N.
C1_ConcurrentJoinsRespectCapacity ==
  [][\A r1, r2 \in Reqs : \A e \in DOMAIN events :
       ( /\ r1 # r2
         /\ JoinInFlight(r1, e) /\ JoinInFlight(r2, e)
         /\ sess[r1].uid # sess[r2].uid
         /\ Capacity(e) # None /\ Capacity(e)[1] >= 1
         /\ Len(sess[r1].loaded.participants) < Capacity(e)[1]
         /\ Len(sess[r2].loaded.participants) < Capacity(e)[1]
         /\ commit_event(r1) )
       => /\ Len(events'[e].participants) <= Capacity(e)[1]
          /\ Cardinality(Members(events', e) \cup {sess[r1].uid, sess[r2].uid})
               <= Capacity(e)[1]]_vars

\* C2: every event whose max_participants is set has at most
\* max_participants participants.
C2_ParticipantsWithinCapacity ==
  \A e \in DOMAIN events :
    Capacity(e) # None => Len(events[e].participants) <= Capacity(e)[1]

\* C3: the outcomes of join_event on an event whose capacity is unset or
\* positive, in order: AlreadyJoined for a participant, the event unchanged;
\* else EventFull when the capacity is set and the count has reached it, the
\* event unchanged; else success, the stored participant set being the old
\* set plus exactly that user.
C3_JoinOutcomes ==
  [][\A r \in Reqs : \A e \in DOMAIN events :
       (Capacity(e) = None \/ Capacity(e)[1] >= 1) =>
       /\ \A tok \in tokens : \A uid \in CurrentUsers(tok) :
            join_begin(r, tok, e) =>
              IF uid \in Members(events, e)
              THEN resp' = AlreadyJoined(uid, e) /\ events' = events
              ELSE IF /\ Capacity(e) # None
                      /\ Len(events[e].participants) >= Capacity(e)[1]
              THEN resp' = EventFull(uid, e) /\ events' = events
              ELSE JoinInFlight(r, e)' /\ sess'[r].ok = Joined(uid, e)
       /\ ( /\ JoinInFlight(r, e)
            /\ sess[r].loaded.participants = events[e].participants
            /\ commit_event(r) )
          => /\ resp' = Joined(sess[r].uid, e)
             /\ events'[e].participants =
                  Append(events[e].participants, sess[r].uid)]_vars

\* C4: the creator of an event is always in its participant set, and a
\* leave_event by the creator always fails with CreatorCannotLeave (400)
\* and changes no event.
C4_CreatorStays ==
  /\ [](\A e \in DOMAIN events : Creator(e) \in Members(events, e))
  /\ [][( /\ resp'.op = "leave_event"
          /\ resp'.eid \in DOMAIN events
          /\ resp'.uid = Creator(resp'.eid) )
        => /\ resp' = CreatorCannotLeave(resp'.uid, resp'.eid)
           /\ events' = events]_vars

C4_Witness ==
  \E e \in DOMAIN events : resp = CreatorCannotLeave(Creator(e), e)

\* C5: a non-creator participant (a user in the stored set, or one whose
\* join has just been acknowledged) who leaves and at once joins again
\* succeeds both times, and the participant set is what it was before.
C5_LeaveThenJoinRestores ==
  [][\A r \in Reqs : \A e \in DOMAIN events :
       /\ \A tok \in tokens : \A uid \in CurrentUsers(tok) :
            ( /\ uid # Creator(e)
              /\ \/ uid \in Members(events, e)
                 \/ resp \in {Joined(uid, e), AlreadyJoined(uid, e)}
              /\ leave_begin(r, tok, e) )
            => /\ sess'[r].op = "leave_event"
               /\ sess'[r].ok = Left(uid, e)
       /\ ( /\ JoinInFlight(r, e)
            /\ resp = Left(sess[r].uid, e)
            /\ commit_event(r) )
          => /\ resp' = Joined(sess[r].uid, e)
             /\ Members(events', e) =
                  Members(events, e) \cup {sess[r].uid}]_vars

\* C8: update_event and delete_event by a user who is neither the creator
\* nor an admin fail with 403 and leave every stored event as it was; by
\* the creator or an admin they are carried out (200).
C8_OnlyCreatorOrAdminEdits ==
  [][( /\ resp'.op \in {"update_event", "delete_event"}
       /\ resp'.eid \in DOMAIN events )
     => IF \/ resp'.uid = Creator(resp'.eid)
           \/ users[resp'.uid].is_admin
        THEN resp'.status = 200
        ELSE /\ resp'.status = 403
             /\ events' = events]_vars

C8_Witness ==
  /\ resp.status = 403
  /\ resp.op \in {"update_event", "delete_event"}
  /\ resp.eid \in DOMAIN events
  /\ resp.uid # Creator(resp.eid)


\* ============================================================ claims C6, C10
\* C6: a delete_event carried out for the creator or an admin keeps the
\* event row and only turns its active flag off (updated_at aside); after
\* it get_event still returns the row and no get_events listing, whatever
\* the filter, caller and window, includes it.
C6_SoftDelete ==
  [][( /\ resp'.op = "delete_event"
       /\ resp'.status = 200 )
     => LET e == resp'.eid IN
        /\ DOMAIN events' = DOMAIN events
        /\ e \in DOMAIN events'
        /\ events'[e].is_active = Some(FALSE)
        /\ \A f \in EventFields \ {"is_active", "updated_at"} :
             events'[e][f] = events[e][f]
        /\ \A x \in DOMAIN events \ {e} : events'[x] = events[x]
        /\ GetEvent(events', e).status = 200
        /\ GetEvent(events', e).body = <<e>>
        /\ \A uid \in DOMAIN users : \A f \in FilterTypes :
             \A skip \in Skips : \A limit \in Limits :
               \A result \in GetEventsResults(events', now', f, uid, skip, limit) :
                 e \notin Range(result)]_vars

C6_Witness ==
  /\ resp.op = "delete_event"
  /\ resp.status = 200
  /\ resp.eid \in DOMAIN events
  /\ events[resp.eid].is_active = Some(FALSE)
  /\ \E x \in DOMAIN events : events[x].is_active = Some(TRUE)

\* the events a listing is to contain
Listed(filter_type, uid) ==
  {e \in DOMAIN events :
     /\ events[e].is_active = Some(TRUE)
     /\ (filter_type = "my" => events[e].created_by = uid)
     /\ (filter_type = "joined" => uid \in Members(events, e))
     /\ (filter_type = "upcoming" => events[e].event_date[1] >= now)
     /\ (filter_type = "past" => events[e].event_date[1] < now)}

\* s enumerates the set once each, dates ascending
AscendingEnumeration(s, set) ==
  /\ Len(s) = Cardinality(set)
  /\ Range(s) = set
  /\ \A i \in 1..(Len(s) - 1) :
       events[s[i]].event_date[1] <= events[s[i + 1]].event_date[1]

C7_PartialPatch ==
  [][ /\ (resp'.op = "update_event" /\ resp'.status = 200)
           => LET e == resp'.eid IN
              \A body \in EventPatches :
                events'[e] = PatchedEvent(events[e], body, now)
                  => \A f \in EventFields \ DOMAIN body :
                       events'[e][f] = events[e][f]
      /\ resp'.op = "update_user_profile"
           => LET uid == resp'.uid IN
              \A body \in ProfilePatches :
                users'[uid] = PatchedProfile(users[uid], body, now)
                  => \A f \in ProfileFields :
                       users'[uid][f] =
                         (IF f \in DOMAIN body THEN body[f]
                          ELSE users[uid][f]) ]_vars

\* C7, amended: after update_event every EventDB field omitted from the
\* body, other than updated_at, has its old value, every supplied field
\* has the supplied value (null included), and updated_at is the old
\* value or the time of the update; after update_user_profile every
\* profile field omitted from the body or supplied as null has its old
\* value and every field supplied with a non-null value has that value.
C7_PartialPatchAmended ==
  [][ /\ (resp'.op = "update_event" /\ resp'.status = 200)
           => LET e == resp'.eid IN
              \A body \in EventPatches :
                events'[e] = PatchedEvent(events[e], body, now)
                  => /\ \A f \in EventFields \ (DOMAIN body \union {"updated_at"}) :
                          events'[e][f] = events[e][f]
                     /\ \A f \in DOMAIN body : events'[e][f] = body[f]
                     /\ events'[e].updated_at \in {events[e].updated_at, Some(now)}
      /\ resp'.op = "update_user_profile"
           => LET uid == resp'.uid IN
              \A body \in ProfilePatches :
                users'[uid] = PatchedProfile(users[uid], body, now)
                  => \A f \in ProfileFields :
                       users'[uid][f] =
                         (IF f \in DOMAIN body /\ body[f] # None
                          THEN body[f] ELSE users[uid][f]) ]_vars

\* an event patched in its title only and a profile patched in its gender
\* only, the other fields as they were created
C7_Witness ==
  /\ resp.op = "update_user_profile"
  /\ \E uid \in DOMAIN users :
       /\ users[uid].gender = Some("f")
       /\ users[uid].birth_date = None
       /\ users[uid].interests = Some(<<>>)
  /\ \E e \in DOMAIN events :
       /\ events[e].title = Some("t2")
       /\ events[e].description = None
       /\ events[e].location = Some("l1")
       /\ events[e].participants = <<events[e].created_by>>
       /\ events[e].updated_at # None


\* ================================================================ claim C9
\* C9: whatever create_user, update_user_info and admin_update_user
\* requests have been served, in whatever interleaving, no two user rows
\* have the same email and no two have the same username; and a
\* create_user whose email or username belongs to an existing user is
\* answered 400 and creates nothing.
C9_UniqueEmailAndUsername ==
  /\ [](\A u, v \in DOMAIN users :
          u # v => /\ users[u].email # users[v].email
                   /\ users[u].username # users[v].username)
  /\ [][\A r \in Reqs : \A body \in UserBodies :
          ( /\ create_user(r, body, MaxUsers)
            /\ \E u \in DOMAIN users :
                 users[u].email = body.email \/ users[u].username = body.username )
            => /\ resp'.op = "create_user"
               /\ resp'.status = 400
               /\ users' = users
               /\ sess' = sess]_vars

\* =============================================================== claim C11
\* C11: an event whose active flag is off is in no get_events listing
\* after any further step, whatever the caller, filter and window: nothing
\* turns the flag of a deleted event back on.
C11_DeletedStaysExcluded ==
  [][\A e \in DOMAIN events :
       events[e].is_active = Some(FALSE)
         => /\ e \in DOMAIN events'
            /\ events'[e].is_active = Some(FALSE)
            /\ \A uid \in DOMAIN users : \A f \in FilterTypes :
                 \A skip \in Skips : \A limit \in Limits :
                   \A result \in GetEventsResults(events', now', f, uid, skip, limit) :
                     e \notin Range(result)]_vars

\* =============================================================== claim C12
NoDuplicates(s) == \A i, j \in DOMAIN s : s[i] = s[j] => i = j

\* C12: in every state, also while join requests of one user for one event
\* overlap, each stored participant list holds every user id at most once,
\* and so does each list a join or leave request is about to commit.
C12_ParticipantsIsSet ==
  /\ \A e \in DOMAIN events : NoDuplicates(events[e].participants)
  /\ \A r \in Reqs :
       sess[r].op \in {"join_event", "leave_event"}
         => NoDuplicates(sess[r].obj.participants)

\* two join requests of the same user for the same event, both past the
\* membership check and neither committed, after an earlier one was answered
C12_Witness ==
  \E r1, r2 \in Reqs : \E e \in DOMAIN events :
    /\ r1 # r2
    /\ JoinInFlight(r1, e)
    /\ JoinInFlight(r2, e)
    /\ sess[r1].uid = sess[r2].uid
    /\ resp = Joined(sess[r1].uid, e)

\* =============================================================== claim C13
\* C13: a token issued to a user at login resolves to that user or to
\* nobody, whatever renames, admin edits, deletions and registrations
\* follow; here for the states in which user names are unique, so that the
\* resolution of a token is not ambiguous to begin with.
C13_TokenResolvesToItsUser ==
  (\A u, v \in DOMAIN users : u # v => users[u].username # users[v].username)
    => \A tok \in tokens : CurrentUsers(tok) \subseteq {tok.uid}

\* =============================================================== claim C14
\* C14: no update_event, delete_event or upload_event_image call, whoever
\* makes it, whatever it answers and whatever its body, changes which
\* event ids exist, an event's created_by or an event's participants.
C14_EditsKeepOwnershipAndMembership ==
  [][resp'.op \in {"update_event", "delete_event", "upload_event_image"}
       => /\ DOMAIN events' = DOMAIN events
          /\ \A e \in DOMAIN events :
               /\ events'[e].created_by = events[e].created_by
               /\ events'[e].participants = events[e].participants]_vars

\* an event patched with a body that names created_by and participants,
\* deleted and given an image, still owned by its creator
C14_Witness ==
  /\ resp.op = "upload_event_image"
  /\ resp.status = 200
  /\ \E e \in DOMAIN events :
       /\ e = resp.eid
       /\ events[e].title = Some("t2")
       /\ events[e].is_active = Some(FALSE)
       /\ events[e].image_url = Some(ImageUrl(e, [is_image |-> TRUE, ext |-> "png"], now))
       /\ events[e].created_by = 2
       /\ events[e].participants = <<2>>

====
